---- MODULE Spec2Model ----
(***************************************************************************)
(* Model of app.py: the Streamlit script that loads a table of regional    *)
(* time series, lets the analyst pick regions and a variable, and for each *)
(* selected region extracts the (Year, Value) series, fits ARIMA(2,1,2),   *)
(* displays chart and table and writes a trend summary.                    *)
(*                                                                         *)
(* Strings are sequences of one-character strings, so that the display     *)
(* string of a region and its parsing are computed as the code computes    *)
(* them.  Floating-point quotients are exact rationals [num, den]; a zero  *)
(* denominator stands for the error / NaN / infinity of a division by 0.   *)
(***************************************************************************)
EXTENDS Integers, Sequences, FiniteSets, TLC

VARIABLES
    pc,                 \* position of the script
    df,                 \* the parsed table: [columns, rows]
    forecast_steps,     \* parameter forecast_steps of generate_arima_forecast
    selected_regions,   \* st.multiselect result: display strings in pick order
    selected_variable,  \* st.selectbox result: a column name or None
    selected_codes,     \* codes parsed back from the display strings
    filtered_data,      \* rows of df whose code is among selected_codes
    i,                  \* number of loop iterations started
    region_code,        \* loop variable
    region_df,          \* rows of filtered_data of region_code
    time_series_data,   \* sorted (Year, Value) rows, later tagged Historical
    forecast_data,      \* result of generate_arima_forecast
    fitted,             \* iterations in which ARIMA(...).fit() was called
    calc,               \* quantities computed at lines 115-123, per iteration
    written,            \* the summary written at lines 128-133, per iteration
    out                 \* what the script put on the page, in order

vars == <<pc, df, forecast_steps, selected_regions, selected_variable,
          selected_codes, filtered_data, i, region_code, region_df,
          time_series_data, forecast_data, fitted, calc, written, out>>

(***************************************************************************)
(* Bounds of the model.                                                    *)
(***************************************************************************)
MaxRows == 3
MaxSel == 2
MaxSteps == 2

(***************************************************************************)
(* Program constants.                                                      *)
(***************************************************************************)
DefaultSteps == 8
ReportSteps == 8
MinPoints == 2

None == "None"

(***************************************************************************)
(* Columns.                                                                *)
(***************************************************************************)
required_cols == {"NUTS Code", "NUTS name", "Year"}

\* pd.api.types.is_numeric_dtype(df[col])
is_numeric_dtype(col) == col \in {"Year", "Population"}

AllCols == required_cols \cup {"Population", "Note"}

\* the uploaded tables differ from the full layout by at most one column
ColumnSets == {S \in SUBSET AllCols : Cardinality(AllCols \ S) <= 1}

numeric_cols(d) ==
    {col \in d.columns : col \notin required_cols /\ is_numeric_dtype(col)}

(***************************************************************************)
(* Region display strings and their parsing (lines 44 and 52).             *)
(***************************************************************************)
Display(name, code) == name \o <<" ", "(">> \o code \o <<")">>

\* positions of "(" in s
OpenAt(s) == {k \in 1..Len(s) : s[k] = "("}

Max(S) == CHOOSE x \in S : \A y \in S : y <= x
Min(S) == CHOOSE x \in S : \A y \in S : x <= y

\* entry.split('(')[-1]
SplitLast(s) ==
    IF OpenAt(s) = {} THEN s ELSE SubSeq(s, Max(OpenAt(s)) + 1, Len(s))

\* s.strip(')')
Strip(s) ==
    LET keep == {k \in 1..Len(s) : s[k] # ")"}
    IN  IF keep = {} THEN <<>> ELSE SubSeq(s, Min(keep), Max(keep))

ParseCode(entry) == Strip(SplitLast(entry))

(***************************************************************************)
(* Sequences.                                                              *)
(***************************************************************************)
BSeq(S, n) == UNION {[1..k -> S] : k \in 0..n}

Range(s) == {s[k] : k \in 1..Len(s)}

Injective(s) == \A a, b \in 1..Len(s) : s[a] = s[b] => a = b

Abs(x) == IF x < 0 THEN -x ELSE x

\* exact quotient n / d of two numbers
Rat(n, d) == [num |-> n, den |-> d]

RatEq(a, b) == a.den # 0 /\ b.den # 0 /\ a.num * b.den = b.num * a.den

(***************************************************************************)
(* Input tables.                                                           *)
(***************************************************************************)
\* the regions of the batch runs: two plain codes, and two whose code has a
\* parenthesis; a region name may hold parentheses too
Regions == {[code |-> <<"E">>, name |-> <<"N">>],
            [code |-> <<"F">>, name |-> <<"N", "(", "n", ")">>],
            [code |-> <<"E", "(">>, name |-> <<"N">>],
            [code |-> <<"(", "E">>, name |-> <<"N">>]}

\* the region of the series runs
SeriesRegions == {[code |-> <<"E">>, name |-> <<"N">>]}

Years == {2018, 2020}

SeriesYears == {2018, 2019, 2021}

Values == {5}

SeriesValues == {-4, 0}

\* slopes of the point forecasts the fitted model may return
Slopes == {-1, 2}

Horizons == (1..MaxSteps) \cup {DefaultSteps}

Rows(regions, years, values) ==
    {[code |-> g.code, name |-> g.name, year |-> y, value |-> v] :
        g \in regions, y \in years, v \in values}

\* the tables with every column, and the tables that differ from them by one
\* column and hold at most one row
Tables(regions, years, values) ==
    [columns : {AllCols}, rows : BSeq(Rows(regions, years, values), MaxRows)]
    \cup [columns : ColumnSets, rows : BSeq(Rows(regions, years, values), 1)]

(***************************************************************************)
(* The page.                                                               *)
(***************************************************************************)
Put(kind, idx) == [kind |-> kind, idx |-> idx]

Shown(kind, idx) == \E k \in 1..Len(out) : out[k] = Put(kind, idx)

(***************************************************************************)
(* Initial state: a file has been uploaded (line 20).                      *)
(***************************************************************************)
InitWith(tables, steps) ==
    /\ pc = "read"
    /\ df \in tables
    /\ forecast_steps \in steps
    /\ selected_regions = <<>>
    /\ selected_variable = None
    /\ selected_codes = <<>>
    /\ filtered_data = <<>>
    /\ i = 0
    /\ region_code = <<>>
    /\ region_df = <<>>
    /\ time_series_data = <<>>
    /\ forecast_data = <<>>
    /\ fitted = {}
    /\ calc = <<>>
    /\ written = <<>>
    /\ out = <<>>

\* the script as it is: line 82 calls generate_arima_forecast with the default
Init == InitWith(Tables(Regions, Years, Values), {DefaultSteps})

\* the runs over the parameter forecast_steps of generate_arima_forecast

InitSeries == InitWith(Tables(SeriesRegions, SeriesYears, SeriesValues), Horizons)

\* lines 142-143: the handler around the whole script
OuterExcept ==
    /\ out' = Append(out, Put("error_processing", i))
    /\ pc' = "done"

(***************************************************************************)
(* Lines 21-34: read the file.                                             *)
(***************************************************************************)
ReadFile ==
    /\ pc = "read"
    /\ \/ /\ out' = Append(out, Put("success", 0))
          /\ pc' = "check"
       \/ OuterExcept
    /\ UNCHANGED <<df, forecast_steps, selected_regions, selected_variable,
                   selected_codes, filtered_data, i, region_code, region_df,
                   time_series_data, forecast_data, fitted, calc, written>>

(***************************************************************************)
(* Lines 36-38: the required columns.                                      *)
(***************************************************************************)
\* line 37 with any() for all()
HasRequiredAny(d) == \E col \in required_cols : col \in d.columns

\* line 37
HasRequired(d) == \A col \in required_cols : col \in d.columns

CheckColumns ==
    /\ pc = "check"
    /\ IF ~HasRequired(df)
       THEN /\ out' = Append(out, Put("error_columns", 0))
            /\ pc' = "done"
       ELSE /\ out' = out
            /\ pc' = "select"
    /\ UNCHANGED <<df, forecast_steps, selected_regions, selected_variable,
                   selected_codes, filtered_data, i, region_code, region_df,
                   time_series_data, forecast_data, fitted, calc, written>>

(***************************************************************************)
(* Lines 40-55, 139-140: the two filters and the selection of the rows.    *)
(***************************************************************************)
\* lines 43-45: the options of the region selector
region_options(d) == {Display(r.name, r.code) : r \in Range(d.rows)}

\* line 52
CodesOf(regions) == [k \in 1..Len(regions) |-> ParseCode(regions[k])]

\* line 53: df[df['NUTS Code'].isin(selected_codes)]
IsIn(rows, codes) ==
    LET Test(r) == r.code \in Range(codes)
    IN  SelectSeq(rows, Test)

\* st.selectbox: one of the options, None when there is none
SelectboxChoices(options) == IF options = {} THEN {None} ELSE options

Select ==
    /\ pc = "select"
    /\ \E regions \in BSeq(region_options(df), MaxSel),
          variable \in SelectboxChoices(numeric_cols(df)) :
          /\ Injective(regions)
          /\ selected_regions' = regions
          /\ selected_variable' = variable
          /\ IF variable # None /\ regions # <<>>
             THEN /\ selected_codes' = CodesOf(regions)
                  /\ filtered_data' = IsIn(df.rows, CodesOf(regions))
                  /\ IF IsIn(df.rows, CodesOf(regions)) # <<>>
                     THEN /\ pc' = "loop"
                          /\ out' = out
                     ELSE /\ pc' = "done"
                          /\ out' = Append(out, Put("info_no_match", 0))
             ELSE /\ pc' = "done"
                  /\ UNCHANGED <<selected_codes, filtered_data, out>>
    /\ UNCHANGED <<df, forecast_steps, i, region_code, region_df,
                   time_series_data, forecast_data, fitted, calc, written>>

(***************************************************************************)
(* Lines 56-59: the next region of the loop and its series.                *)
(***************************************************************************)
\* the cell of row r in column col
Cell(r, col) ==
    CASE col = "NUTS Code" -> r.code
      [] col = "NUTS name" -> r.name
      [] col = "Year" -> r.year
      [] col = "Population" -> r.value
      [] OTHER -> "text"

\* line 57: filtered_data[filtered_data['NUTS Code'] == region_code]
RowsOf(rows, code) ==
    LET Test(r) == r.code = code
    IN  SelectSeq(rows, Test)

\* lines 58-59: region_df[['Year', selected_variable]] renamed to Value
Project(rows, variable) ==
    [k \in 1..Len(rows) |-> [Year |-> Cell(rows[k], "Year"),
                             Value |-> Cell(rows[k], variable)]]

Perms(n) == {p \in [1..n -> 1..n] : \A a, b \in 1..n : p[a] = p[b] => a = b}

\* line 58 without sort_values: the rows stay in the order of df
SortValuesKeep(rows) == {rows}

\* line 58: sort_values('Year'); rows of equal Year come in any order
\* (the default sort kind is not stable)
SortValues(rows) ==
    LET n == Len(rows)
        Reordered(p) == [k \in 1..n |-> rows[p[k]]]
    IN  {Reordered(p) : p \in {q \in Perms(n) :
            \A k \in 1..(n - 1) : rows[q[k]].Year <= rows[q[k + 1]].Year}}

Extract ==
    /\ pc = "loop"
    /\ i < Len(selected_codes)
    /\ i' = i + 1
    /\ region_code' = selected_codes[i + 1]
    /\ region_df' = RowsOf(filtered_data, selected_codes[i + 1])
    /\ time_series_data' \in
           SortValues(Project(RowsOf(filtered_data, selected_codes[i + 1]),
                              selected_variable))
    /\ pc' = "forecast"
    /\ UNCHANGED <<df, forecast_steps, selected_regions, selected_variable,
                   selected_codes, filtered_data, forecast_data, fitted, calc,
                   written, out>>

\* line 56: the loop is over
LoopEnd ==
    /\ pc = "loop"
    /\ i = Len(selected_codes)
    /\ pc' = "done"
    /\ UNCHANGED <<df, forecast_steps, selected_regions, selected_variable,
                   selected_codes, filtered_data, i, region_code, region_df,
                   time_series_data, forecast_data, fitted, calc, written, out>>

(***************************************************************************)
(* Lines 61-84: generate_arima_forecast and the combined table.            *)
(***************************************************************************)
YearsOf(data) == {data[k].Year : k \in 1..Len(data)}

\* lines 67-69: the point forecasts of the fitted model, one per step; the
\* fit is the library's, its result is any of these ramps from the last value
ArimaForecasts(values, steps) ==
    {[k \in 1..steps |-> values[Len(values)] + slope * k] : slope \in Slopes}

\* line 119: historical['Year'].min()
EarliestYear(data) == Min(YearsOf(data))

\* line 70: data['Year'].max()
LatestYear(data) == Max(YearsOf(data))

\* line 71 with the range starting at latest_year instead of latest_year + 1
ForecastYearsFromLatest(data, steps) ==
    [k \in 1..steps |-> LatestYear(data) + k - 1]

\* line 71: range(latest_year + 1, latest_year + forecast_steps + 1)
ForecastYears(data, steps) ==
    [k \in 1..steps |-> LatestYear(data) + k]

\* lines 72-76
ForecastFrame(years, result) ==
    [k \in 1..Len(years) |-> [Year |-> years[k], Value |-> result[k],
                              Type |-> "Forecast"]]

\* line 83: time_series_data['Type'] = 'Historical'
TagHistorical(data) ==
    [k \in 1..Len(data) |-> [Year |-> data[k].Year, Value |-> data[k].Value,
                             Type |-> "Historical"]]

ValuesOf(data) == [k \in 1..Len(data) |-> data[k].Value]

\* line 80 returning the last value repeated instead of an empty frame
FitFailedNaive(data, steps) ==
    ForecastFrame(ForecastYears(data, steps),
                  [k \in 1..steps |-> data[Len(data)].Value])

\* line 80: return pd.DataFrame()
FitFailed(data, steps) == <<>>

\* line 62: len(data) < 2
TooShort(data) == Len(data) < MinPoints

Forecast ==
    /\ pc = "forecast"
    /\ IF TooShort(time_series_data)
       THEN /\ out' = Append(out, Put("warning_insufficient", i))
            /\ forecast_data' = <<>>
            /\ fitted' = fitted
       ELSE /\ fitted' = fitted \cup {i}
            /\ \/ /\ out' = Append(out, Put("error_arima", i))
                  /\ forecast_data' = FitFailed(time_series_data, forecast_steps)
               \/ /\ out' = out
                  /\ \E result \in ArimaForecasts(ValuesOf(time_series_data),
                                                  forecast_steps) :
                        forecast_data' =
                            ForecastFrame(ForecastYears(time_series_data,
                                                        forecast_steps), result)
    /\ time_series_data' = TagHistorical(time_series_data)
    /\ pc' = "display"
    /\ UNCHANGED <<df, forecast_steps, selected_regions, selected_variable,
                   selected_codes, filtered_data, i, region_code, region_df,
                   calc, written>>

\* line 84: pd.concat([time_series_data, forecast_data])
combined_data == time_series_data \o forecast_data

OfType(data, type) ==
    LET Test(r) == r.Type = type
    IN  SelectSeq(data, Test)

\* line 88
historical == OfType(combined_data, "Historical")

\* line 89 without the filter
forecast_unfiltered == combined_data

\* line 89
forecast == OfType(combined_data, "Forecast")

(***************************************************************************)
(* Lines 86-111: the chart and the data table.                             *)
(***************************************************************************)
\* lines 87-108: the chart, with the forecast trace when there is a forecast
Chart(idx) ==
    IF forecast # <<>>
    THEN <<Put("chart", idx), Put("forecast_trace", idx)>>
    ELSE <<Put("chart", idx)>>

DisplayRegion ==
    /\ pc = "display"
    /\ IF region_df = <<>>
       THEN OuterExcept     \* line 86: region_df['NUTS name'].iloc[0]
       ELSE /\ out' = out \o Chart(i) \o <<Put("table", i)>>
            /\ pc' = "report"
    /\ UNCHANGED <<df, forecast_steps, selected_regions, selected_variable,
                   selected_codes, filtered_data, i, region_code, region_df,
                   time_series_data, forecast_data, fitted, calc, written>>

(***************************************************************************)
(* Lines 113-137: the data analysis report.                                *)
(***************************************************************************)
\* line 117
absolute_change(hist) == hist[Len(hist)].Value - hist[1].Value

\* line 118 without abs()
percent_change_signed(hist) ==
    IF hist[1].Value # 0
    THEN Rat(absolute_change(hist) * 100, hist[1].Value)
    ELSE Rat(0, 1)

\* line 118
percent_change(hist) ==
    IF hist[1].Value # 0
    THEN Rat(absolute_change(hist) * 100, Abs(hist[1].Value))
    ELSE Rat(0, 1)

\* line 121
year_span(hist) == LatestYear(hist) - EarliestYear(hist)

\* line 122
avg_annual_change(hist) ==
    IF year_span(hist) > 0
    THEN Rat(absolute_change(hist), year_span(hist))
    ELSE Rat(0, 1)

\* line 123
trend_direction(hist) ==
    IF absolute_change(hist) > 0 THEN "increasing"
    ELSE IF absolute_change(hist) < 0 THEN "decreasing"
    ELSE "stable"

\* lines 115-123
Stats(idx, hist) ==
    [idx |-> idx,
     first_value |-> hist[1].Value,
     last_value |-> hist[Len(hist)].Value,
     absolute_change |-> absolute_change(hist),
     percent_change |-> percent_change(hist),
     earliest_year |-> EarliestYear(hist),
     latest_year |-> LatestYear(hist),
     avg_annual_change |-> avg_annual_change(hist),
     trend_direction |-> trend_direction(hist)]

\* line 126
forecasted_change(hist, fc) == fc[Len(fc)].Value - hist[Len(hist)].Value

\* line 127
forecasted_percent(hist, fc) ==
    IF hist[Len(hist)].Value # 0
    THEN Rat(forecasted_change(hist, fc) * 100, Abs(hist[Len(hist)].Value))
    ELSE Rat(0, 1)

\* lines 128-133: what the summary says
Summary(idx, hist, fc) ==
    [idx |-> idx,
     absolute_change |-> absolute_change(hist),
     percent_change |-> percent_change(hist),
     avg_annual_change |-> avg_annual_change(hist),
     period_from |-> LatestYear(hist) + 1,
     period_to |-> LatestYear(hist) + ReportSteps,
     last_forecast_value |-> fc[Len(fc)].Value,
     forecasted_change |-> forecasted_change(hist, fc),
     forecasted_percent |-> forecasted_percent(hist, fc),
     avg_forecast_change |-> Rat(forecasted_change(hist, fc), ReportSteps)]

\* lines 114 and 124: when the summary and the download are written
SummaryDue(hist, fc) == Len(hist) >= MinPoints /\ fc # <<>>

Report ==
    /\ pc = "report"
    /\ calc' = IF Len(historical) >= MinPoints
               THEN Append(calc, Stats(i, historical))
               ELSE calc
    /\ IF SummaryDue(historical, forecast)
       THEN /\ written' = Append(written, Summary(i, historical, forecast))
            /\ out' = out \o <<Put("summary", i), Put("download", i),
                               Put("note", i)>>
       ELSE /\ written' = written
            /\ out' = Append(out, Put("note", i))
    /\ pc' = "loop"
    /\ UNCHANGED <<df, forecast_steps, selected_regions, selected_variable,
                   selected_codes, filtered_data, i, region_code, region_df,
                   time_series_data, forecast_data, fitted>>

Next ==
    \/ ReadFile
    \/ CheckColumns
    \/ Select
    \/ Extract
    \/ LoopEnd
    \/ Forecast
    \/ DisplayRegion
    \/ Report

Spec == Init /\ [][Next]_vars

SpecSeries == InitSeries /\ [][Next]_vars

(***************************************************************************)
(* Properties.                                                             *)
(***************************************************************************)
\* iteration idx has got past its chart and table, or has ended
PastDisplay(idx) == idx < i \/ (idx = i /\ pc \in {"report", "loop", "done"})

\* the locals of the loop body are those of iteration i
InIteration == i >= 1 /\ pc \in {"display", "report", "loop"}

Displayed(idx) == Shown("chart", idx) /\ Shown("table", idx)

\* the years of the rows of the table that belong to the current region
RegionYears == {region_df[k].year : k \in 1..Len(region_df)}

\* C1: when the fit and the forecast succeed, generate_arima_forecast returns
\* exactly forecast_steps points, all tagged Forecast, whose years are the
\* contiguous integers that follow the largest historical year, whatever gaps
\* the historical years have.
C1_ForecastYears ==
    (InIteration /\ i \in fitted /\ ~Shown("error_arima", i)) =>
        /\ Len(forecast_data) = forecast_steps
        /\ \A k \in 1..Len(forecast_data) :
              /\ forecast_data[k].Type = "Forecast"
              /\ forecast_data[k].Year = Max(RegionYears) + k

\* a successful forecast of several steps from a series whose years have a gap
C1_Witness ==
    /\ pc = "display"
    /\ i \in fitted
    /\ ~Shown("error_arima", i)
    /\ forecast_steps >= 2
    /\ Len(time_series_data) >= 2
    /\ \E y \in RegionYears : y + 1 \notin RegionYears /\ y < Max(RegionYears)

\* C2: a series of fewer than two points gets the warning, no fit and no
\* forecast points, and its chart and data table are still displayed.
C2_ShortSeriesDisplayed ==
    \A idx \in 1..i :
        Shown("warning_insufficient", idx) =>
            /\ idx \notin fitted
            /\ ~Shown("forecast_trace", idx)
            /\ PastDisplay(idx) => Displayed(idx)

\* C3: an error of the fit of a series of two or more points is caught inside
\* generate_arima_forecast: a diagnostic is reported, the forecast is empty,
\* nothing reaches the outer handler, and the chart and the data table of the
\* region are displayed afterwards.
C3_FitErrorContained ==
    \A idx \in 1..i :
        Shown("error_arima", idx) =>
            /\ idx \in fitted
            /\ ~Shown("error_processing", idx)
            /\ ~Shown("forecast_trace", idx)
            /\ (idx = i /\ InIteration) =>
                   (forecast_data = <<>> /\ Len(time_series_data) >= MinPoints)
            /\ PastDisplay(idx) => Displayed(idx)

\* the fit of the first of two regions failed; it was displayed and the loop
\* went on to display the second
C3_Witness ==
    /\ pc = "loop"
    /\ i = 2
    /\ Shown("error_arima", 1)
    /\ 1 \in fitted
    /\ Displayed(1)
    /\ Displayed(2)

\* C4: a failure while one region is processed never prevents the processing
\* and display of the regions after it in the same batch: when the script has
\* ended, every selected region that has rows has its chart and data table.
C4_BatchIsolated ==
    pc = "done" =>
        \A idx \in 1..Len(selected_codes) :
            RowsOf(filtered_data, selected_codes[idx]) # <<>> => Displayed(idx)

\* C5 as stated: the years of the extracted series are strictly ascending.
C5_StrictlyAscending ==
    \A k \in 1..(Len(time_series_data) - 1) :
        time_series_data[k].Year < time_series_data[k + 1].Year

\* C5 as amended: the extracted series holds one point per row of the region,
\* its years are in non-decreasing order, and they are strictly ascending
\* when no two rows of the region share a year.
C5_Ascending ==
    /\ (i >= 1 /\ pc # "done") => Len(time_series_data) = Len(region_df)
    /\ \A k \in 1..(Len(time_series_data) - 1) :
          /\ time_series_data[k].Year <= time_series_data[k + 1].Year
          /\ Cardinality(RegionYears) = Len(region_df) =>
                time_series_data[k].Year < time_series_data[k + 1].Year

\* a series extracted from rows that were out of order and share a year
C5_Witness ==
    /\ pc = "forecast"
    /\ Len(region_df) = 3
    /\ region_df[1].year > region_df[2].year
    /\ Cardinality(RegionYears) = 2

\* C6: when the first historical value is 0 the percent change is exactly 0,
\* and when the last historical value is 0 the forecast percent change is
\* exactly 0; otherwise each is the change divided by the absolute value of
\* its base, times 100.
C6_ZeroGuard ==
    /\ \A k \in 1..Len(calc) :
          /\ (calc[k].idx = i /\ pc = "loop") =>
                /\ calc[k].first_value = time_series_data[1].Value
                /\ calc[k].last_value =
                       time_series_data[Len(time_series_data)].Value
          /\ calc[k].absolute_change = calc[k].last_value - calc[k].first_value
          /\ IF calc[k].first_value = 0
             THEN calc[k].percent_change = Rat(0, 1)
             ELSE RatEq(calc[k].percent_change,
                        Rat(calc[k].absolute_change * 100,
                            Abs(calc[k].first_value)))
    /\ \A k \in 1..Len(written) : \A c \in 1..Len(calc) :
          calc[c].idx = written[k].idx =>
              /\ written[k].percent_change = calc[c].percent_change
              /\ written[k].forecasted_change =
                     written[k].last_forecast_value - calc[c].last_value
              /\ IF calc[c].last_value = 0
                 THEN written[k].forecasted_percent = Rat(0, 1)
                 ELSE RatEq(written[k].forecasted_percent,
                            Rat(written[k].forecasted_change * 100,
                                Abs(calc[c].last_value)))

\* a written summary of a series that starts at 0 and ends below 0
C6_Witness ==
    /\ pc = "loop"
    /\ written # <<>>
    /\ calc # <<>>
    /\ calc[1].first_value = 0
    /\ calc[1].last_value < 0

C8_Precondition ==
    /\ ~(\A col \in required_cols : col \in df.columns) =>
          /\ pc \in {"read", "check", "done"}
          /\ selected_codes = <<>> /\ i = 0
          /\ time_series_data = <<>> /\ fitted = {}
          /\ calc = <<>> /\ written = <<>>
          /\ pc = "done" =>
                (Shown("error_columns", 0) \/ Shown("error_processing", 0))
    /\ i >= 1 =>
          /\ selected_variable \in df.columns \ required_cols
          /\ is_numeric_dtype(selected_variable)

\* the script has ended on the error for a table with rows but no Year column
C8_Witness ==
    /\ pc = "done"
    /\ "Year" \notin df.columns
    /\ df.rows # <<>>
    /\ out = <<Put("success", 0), Put("error_columns", 0)>>

\* C9: the summary and the download are written for a region only if its
\* historical series has two or more points and its forecast is not empty;
\* when the fit fails or is skipped nothing of the summary is written, though
\* the historical quantities were computed.
C9_SummaryOnlyWithForecast ==
    \A idx \in 1..i :
        /\ Shown("summary", idx) <=> Shown("download", idx)
        /\ Shown("summary", idx) <=> (\E k \in 1..Len(written) : written[k].idx = idx)
        /\ Shown("summary", idx) =>
              /\ idx \in fitted
              /\ ~Shown("error_arima", idx)
              /\ ~Shown("warning_insufficient", idx)
              /\ \E k \in 1..Len(calc) : calc[k].idx = idx
        /\ (idx = i /\ pc = "loop") =>
              (Shown("summary", idx) <=>
                   (Len(time_series_data) >= 2 /\ forecast_data # <<>>))

\* the fit failed: the historical quantities were computed, nothing written
C9_Witness ==
    /\ pc = "loop"
    /\ i >= 1
    /\ Shown("error_arima", i)
    /\ \E k \in 1..Len(calc) : calc[k].idx = i
    /\ ~Shown("summary", i)
    /\ Shown("note", i)

\* C10: parsing the display string of every region of the table gives back
\* its code, so every selected region has rows in the loop.
C10_RoundTrip ==
    /\ \A k \in 1..Len(selected_codes) :
          \E r \in Range(df.rows) :
              /\ Display(r.name, r.code) = selected_regions[k]
              /\ selected_codes[k] = r.code
    /\ pc \in {"forecast", "display"} => region_df # <<>>

====
